---------------------------- MODULE Spec2Model ----------------------------
(***************************************************************************)
(* Model of the AnalisisServidores Modelica library (Funciones.mo,         *)
(* Componentes.mo, Modelos.mo and the Datos records).                      *)
(*                                                                         *)
(* Reals are fixed-point integers:                                         *)
(*   temperatures        centikelvin (1 K = 100)                           *)
(*   COP, cosine         1/10000                                           *)
(*   thermal powers      watts                                             *)
(*   time                seconds                                           *)
(*   EnergiaTotal        multiples of dt joules (watt-steps)               *)
(*   CostoTotal          US cents                                          *)
(*   uniform variates    parts per million                                 *)
(* The continuous equations are integrated with the explicit Euler method  *)
(* at a step of dt seconds; the algebraic equations (ambient profile, COP, *)
(* control law, electric power, cost) are re-solved after every step and   *)
(* every event, so they hold in every state.                               *)
(***************************************************************************)
EXTENDS Integers, Sequences, FiniteSets

VARIABLES
    estrategia,             \* SimulacionCompleta.estrategia (parameter)
    T_setpoint_inferior,    \* SimulacionCompleta.T_setpoint_inferior (parameter)
    T_setpoint_superior,    \* SimulacionCompleta.T_setpoint_superior (parameter)
    localSeed,              \* GeneradorClima.localSeed (parameter)
    globalSeed,             \* GeneradorClima.globalSeed (parameter)
    state1024,              \* GeneradorClima.state1024
    u1,                     \* GeneradorClima.u1
    u2,                     \* GeneradorClima.u2
    T_min_diaria,           \* GeneradorClima.T_min_diaria
    T_max_diaria,           \* GeneradorClima.T_max_diaria
    T_room,                 \* SalaServidores.T_room
    T_ambient_instantanea,  \* SimulacionCompleta.T_ambient_instantanea
    Q_cooling_calculada,    \* SimulacionCompleta.Q_cooling_calculada
    COP,                    \* HVAC.COP
    P_electric,             \* HVAC.P_electric
    EnergiaTotal,           \* HVAC.EnergiaTotal
    CostoTotal,             \* HVAC.CostoTotal
    time,                   \* simulation time
    dia,                    \* number of sample(0, 86400) events fired so far
    corridas,               \* the runs of a batch, one SimulacionCompleta each
    muestras,               \* the samples the front end received (data.costs, ...)
    histograma,             \* the histogram the front end built last
    cost_stats,             \* the aggregate statistics of the samples
    simulationRunning,      \* part_003: let simulationRunning
    statusCheckInterval,    \* part_003: let statusCheckInterval (0 is null)
    currentProgressStep,    \* part_003: let currentProgressStep
    temporizadores,         \* the setInterval timers that are active
    dom,                    \* simulate-button and simulation-status elements
    red,                    \* requests sent and not yet answered
    registro,               \* what has happened to each simulation so far
    progress                \* scripts.js: let progress, one per click

vars == <<estrategia, T_setpoint_inferior, T_setpoint_superior, localSeed,
          globalSeed, state1024, u1, u2, T_min_diaria, T_max_diaria, T_room,
          T_ambient_instantanea, Q_cooling_calculada, COP, P_electric,
          EnergiaTotal, CostoTotal, time, dia, corridas,
          muestras, histograma, cost_stats,
          simulationRunning, statusCheckInterval, currentProgressStep,
          temporizadores, dom, red, registro, progress>>

parametros == <<estrategia, T_setpoint_inferior, T_setpoint_superior,
                localSeed, globalSeed>>

clima == <<state1024, u1, u2, T_min_diaria, T_max_diaria, dia>>

\* the variables of one SimulacionCompleta
corrida == <<parametros, clima, T_room, T_ambient_instantanea,
             Q_cooling_calculada, COP, P_electric, EnergiaTotal, CostoTotal,
             time>>

\* the results panel of the front end
panel == <<muestras, histograma, cost_stats>>

\* the page script of the front end and the browser around it
cliente == <<simulationRunning, statusCheckInterval, currentProgressStep,
             temporizadores, dom, red, registro, progress>>

\* what lies outside the single SimulacionCompleta
resto == <<corridas, panel, cliente>>

\* the panel before any result has arrived
SinHistograma == [constructor |-> "", indices |-> <<>>, counts |-> <<>>]
\* costo90 is kept in tenths of the cost unit, the mean as suma / n
SinEstadisticas == [n |-> 0, suma |-> 0, min |-> 0, max |-> 0, costo90 |-> 0]
PanelEnReposo ==
    /\ muestras = <<>>
    /\ histograma = SinHistograma
    /\ cost_stats = SinEstadisticas

\* no batch has been started and no result has arrived
\* the page as loaded: no simulation, no timer, no request
ClienteEnReposo ==
    /\ simulationRunning = FALSE
    /\ statusCheckInterval = 0
    /\ currentProgressStep = 0
    /\ temporizadores = {}
    /\ dom = [disabled |-> FALSE, textContent |-> "", className |-> ""]
    /\ red = [inicios |-> {}, sondeos |-> <<>>, final |-> FALSE]
    /\ registro = [simulaciones |-> 0, pendientes |-> {}, mostrados |-> <<>>,
                   ajeno |-> FALSE, cortado |-> FALSE, fallo |-> FALSE]
    /\ progress = <<>>

RestoEnReposo == corridas = <<>> /\ PanelEnReposo /\ ClienteEnReposo

-----------------------------------------------------------------------------
(* Bounds of the model *)

\* simulated days of a run (the experiment simulates 31)
MaxDias == 2
\* local seeds 0..MaxSemilla are tried
MaxSemilla == 5
\* steps of the HVAC component driven by free inputs
MaxPasosHVAC == 2
\* degrees Celsius by which the ambient temperatures fed to the components
\* extend below and above the breakpoints of the COP curve (20 C and 45 C)
MargenAmbiente == 3
\* degrees Celsius by which the room temperatures fed to the control law
\* extend below and above the default setpoints (22 C and 26 C)
MargenSala == 2
\* start values of T_room fed to the room alone: 0 C to 10 * MaxArranque C
MaxArranque == 10
\* steps of the room alone
MaxPasosSala == 90
\* length of the sample lists fed to the histogram builders
MaxMuestras == 3
\* the samples fed to the front end are 0 .. MaxCosto
MaxCosto == 3
\* number of cost samples of a batch fed to the aggregate statistics
MaxLote == 11

-----------------------------------------------------------------------------
(* Datos.ParametrosClimaticos, Datos.ParametrosFisicos and literals *)

KELVIN == 27315
Tmin_mu == 2010 + KELVIN
Tmin_sigma == 250
DeltaT_mu == 1140
DeltaT_sigma == 300

A == 126
\* U = 2.5 W/m2K, in tenths
U == 25
Q_servers == 10000
C_th == 150000
Q_max_cooling == 15000
\* 0.13 USD/kWh, in cents
costo_kWh == 13
\* 3.6e6 J = 1 kWh
JoulesPorKWh == 3600000

periodo == 86400
t_offset == 54000
\* "T_min a las 5:00 (t=18000s)"
t_minima == 18000
T_room_start == 29715
\* 24 + 273.15, the literal of the LineaBase branch
T_LineaBase == 2400 + KELVIN
T_setpoint_inferior_def == 2200 + KELVIN
T_setpoint_superior_def == 2600 + KELVIN
\* hvac.COP > 3.0
COP_eficiente == 30000
globalSeed_def == 12345

\* integration step: one minute
dt == periodo \div 1440


-----------------------------------------------------------------------------
(* Funciones *)

\* cos at multiples of 15 degrees (one hour of the daily period)
CosTabla == <<10000, 9659, 8660, 7071, 5000, 2588, 0,
              -2588, -5000, -7071, -8660, -9659, -10000>>

CosHora(k) == CosTabla[(IF k % 24 <= 12 THEN k % 24 ELSE 24 - (k % 24)) + 1]

\* cos(freq_ang * d) for d seconds, freq_ang = 2 pi / periodo: the hourly
\* values, linearly interpolated inside the hour
CosPeriodo(d) ==
    LET hora == periodo \div 24
        m == d % periodo
        h == m \div hora
        r == m % hora
    IN (CosHora(h) * (hora - r) + CosHora(h + 1) * r) \div hora

\* T_ambient := linea_media + amplitud * cos(freq_ang * (t - t_offset))
\* with amplitud = (T_max - T_min) / 2 and linea_media = (T_max + T_min) / 2
perfilTemperaturaDiaria(t, T_min, T_max) ==
    ((T_max + T_min) * 10000 + (T_max - T_min) * CosPeriodo(t - t_offset))
        \div 20000

\* the COP curve without the plateau below 20 C
calcularCOP_sinTope(T_amb_K) ==
    LET T_amb_C == T_amb_K - KELVIN
    IN IF T_amb_C >= 4500 THEN 12500
       ELSE 45000 - 15 * (T_amb_C - 2000)

\* the largest value calcularCOP returns, 4.5
COP_max == 45000

\* COP := if T_amb_C <= 20 then 4.5 else if T_amb_C >= 45 then 1.25
\*        else 4.5 - 0.15 * (T_amb_C - 20)
calcularCOP(T_amb_K) ==
    LET T_amb_C == T_amb_K - KELVIN
    IN IF T_amb_C <= 2000 THEN 45000
       ELSE IF T_amb_C >= 4500 THEN 12500
       ELSE 45000 - 15 * (T_amb_C - 2000)

-----------------------------------------------------------------------------
(* Modelica Standard Library functions called by GeneradorClima *)

\* The variates the generator can return: the quantile levels -4, -1, 0, 1
\* and 4 standard deviations, in parts per million.
Variates == <<32, 158655, 500000, 841345, 999968>>

\* Xorshift1024star.initialState(localSeed, globalSeed): a deterministic
\* function of the two seeds.  The 1024-bit state is abstracted to 0..24.
initialState(lSeed, gSeed) == (7 * lSeed + gSeed) % 25

\* Xorshift1024star.random(stateIn) = (result, stateOut): deterministic; the
\* variate is a function of stateOut.  A full-period congruential generator
\* stands for the xorshift recurrence.
random(stateIn) ==
    LET stateOut == (6 * stateIn + 1) % 25
    IN [result |-> Variates[(stateOut \div 5) + 1], stateOut |-> stateOut]

\* standard normal quantile of a variate, in hundredths
Probit(u) ==
    CASE u = 32 -> -400
      [] u = 158655 -> -100
      [] u = 500000 -> 0
      [] u = 841345 -> 100
      [] u = 999968 -> 400

\* Normal.quantile(u, mu, sigma) = mu + sigma * sqrt(2) * erfInv(2u - 1)
quantile(u, mu, sigma) == mu + (sigma * Probit(u)) \div 100

-----------------------------------------------------------------------------
(* Componentes.SalaServidores *)

\* Q_transmission = A * U * (T_ambient - T_room)
Q_transmission_de(T_amb, T_sala) == (A * U * (T_amb - T_sala)) \div 1000

\* the heat balance without the heat of the servers
T_room_siguiente_sinServidores(T_sala, T_amb, Q_cooling) ==
    T_sala + (100 * dt * (Q_transmission_de(T_amb, T_sala) - Q_cooling))
                 \div C_th

\* C_th * der(T_room) = Q_servers + Q_transmission - Q_cooling, one Euler step
T_room_siguiente(T_sala, T_amb, Q_cooling) ==
    T_sala + (100 * dt * (Q_servers + Q_transmission_de(T_amb, T_sala) - Q_cooling))
                 \div C_th

-----------------------------------------------------------------------------
(* Componentes.HVAC *)

\* Q_cooling_demand > 1e-6: demands are whole watts, so the comparison with
\* one microwatt is the comparison with 0
SuperaUmbral(Q) == Q > 0

\* max(COP, 1e-6) as a fraction num/den: 1e-6 is 1/100 of the COP unit
MaxCOP(cop) ==
    IF cop * 100 > 1 THEN [num |-> cop, den |-> 10000]
                     ELSE [num |-> 1, den |-> 1000000]

\* the power without the test of the demand against the threshold
P_electric_sinUmbral(Q, cop) == (Q * MaxCOP(cop).den) \div MaxCOP(cop).num

\* the power with the threshold test written as a test for a non-zero demand
P_electric_noCero(Q, cop) ==
    IF Q # 0 THEN (Q * MaxCOP(cop).den) \div MaxCOP(cop).num ELSE 0

\* P_electric = if Q_cooling_demand > 1e-6
\*              then Q_cooling_demand / max(COP, 1e-6) else 0
P_electric_de(Q, cop) ==
    IF SuperaUmbral(Q) THEN (Q * MaxCOP(cop).den) \div MaxCOP(cop).num ELSE 0

\* der(EnergiaTotal) = P_electric, one Euler step (in units of dt joules)
EnergiaSiguiente(E, P) == E + P

\* the cost without the tariff
CostoTotal_sinTarifa(E) == E \div (JoulesPorKWh \div dt)

\* CostoTotal = (EnergiaTotal / 3.6e6) * costo_kWh
CostoTotal_de(E) == (E * costo_kWh) \div (JoulesPorKWh \div dt)

-----------------------------------------------------------------------------
(* Modelos.SimulacionCompleta: control law *)

TipoControl == {"LineaBase", "Optimizado"}

\* the thermostat with a non-strict comparison
ControlLineaBase_noEstricto(T_sala, Q_max) ==
    IF T_sala >= T_LineaBase THEN Q_max ELSE 0

\* if salaServidores.T_room > (24 + 273.15) then Q_max_cooling else 0
ControlLineaBase(T_sala, Q_max) ==
    IF T_sala > T_LineaBase THEN Q_max ELSE 0

\* the deadband law with a non-strict efficiency test
ControlOptimizado_copNoEstricto(T_sala, cop, T_inf, T_sup, Q_max) ==
    IF T_sala > T_sup THEN Q_max
    ELSE IF T_sala > T_inf /\ cop >= COP_eficiente THEN Q_max
    ELSE 0

\* the deadband law with the efficiency test applied above the ceiling too
ControlOptimizado_sinEmergencia(T_sala, cop, T_inf, T_sup, Q_max) ==
    IF T_sala > T_inf /\ cop > COP_eficiente THEN Q_max ELSE 0

\* the deadband law with half power in the middle band
ControlOptimizado_modulado(T_sala, cop, T_inf, T_sup, Q_max) ==
    IF T_sala > T_sup THEN Q_max
    ELSE IF T_sala > T_inf /\ cop > COP_eficiente THEN Q_max \div 2
    ELSE 0

\* if T_room > T_setpoint_superior then Q_max_cooling
\* else if T_room > T_setpoint_inferior and hvac.COP > 3.0 then Q_max_cooling
\* else 0
ControlOptimizado(T_sala, cop, T_inf, T_sup, Q_max) ==
    IF T_sala > T_sup THEN Q_max
    ELSE IF T_sala > T_inf /\ cop > COP_eficiente THEN Q_max
    ELSE 0

Q_cooling_de(estr, T_sala, cop, T_inf, T_sup, Q_max) ==
    IF estr = "LineaBase" THEN ControlLineaBase(T_sala, Q_max)
                          ELSE ControlOptimizado(T_sala, cop, T_inf, T_sup, Q_max)

\* the equations with a demand that stays on inside the band once cooling
\* is on
Resolver_conHisteresis(T_sala, E) ==
    /\ COP' = calcularCOP(T_ambient_instantanea')
    /\ Q_cooling_calculada' =
           IF /\ Q_cooling_calculada > 0
              /\ estrategia' = "Optimizado"
              /\ T_sala > T_setpoint_inferior'
           THEN Q_max_cooling
           ELSE Q_cooling_de(estrategia', T_sala, COP',
                             T_setpoint_inferior', T_setpoint_superior', Q_max_cooling)
    /\ P_electric' = P_electric_de(Q_cooling_calculada', COP')
    /\ CostoTotal' = CostoTotal_de(E)

\* hvac.COP, Q_cooling_calculada, hvac.P_electric and hvac.CostoTotal solved
\* for the new ambient temperature, room temperature and energy
Resolver(T_sala, E) ==
    /\ COP' = calcularCOP(T_ambient_instantanea')
    /\ Q_cooling_calculada' =
           Q_cooling_de(estrategia', T_sala, COP',
                        T_setpoint_inferior', T_setpoint_superior', Q_max_cooling)
    /\ P_electric' = P_electric_de(Q_cooling_calculada', COP')
    /\ CostoTotal' = CostoTotal_de(E)

\* The algebraic equations of SimulacionCompleta, solved for the given
\* continuous and discrete states.
Algebraicas(t, T_min, T_max, T_sala, E) ==
    /\ T_ambient_instantanea' = perfilTemperaturaDiaria(t, T_min, T_max)
    /\ Resolver(T_sala, E)

-----------------------------------------------------------------------------
(* Modelos.SimulacionCompleta: one run *)

Semillas == 0 .. MaxSemilla

\* GeneradorClima, initial algorithm: the first day is drawn with two
\* successive variates
Init ==
    /\ estrategia \in TipoControl
    /\ T_setpoint_inferior = T_setpoint_inferior_def
    /\ T_setpoint_superior = T_setpoint_superior_def
    /\ localSeed \in Semillas
    /\ globalSeed = globalSeed_def
    /\ LET s0 == initialState(localSeed, globalSeed)
           r1 == random(s0)
           r2 == random(r1.stateOut)
       IN /\ u1 = r1.result
          /\ u2 = r2.result
          /\ state1024 = r2.stateOut
          /\ T_min_diaria = quantile(u1, Tmin_mu, Tmin_sigma)
          /\ T_max_diaria = T_min_diaria + quantile(u2, DeltaT_mu, DeltaT_sigma)
    /\ T_room = T_room_start
    /\ EnergiaTotal = 0
    /\ time = 0
    /\ dia = 0
    /\ T_ambient_instantanea = perfilTemperaturaDiaria(time, T_min_diaria, T_max_diaria)
    /\ COP = calcularCOP(T_ambient_instantanea)
    /\ Q_cooling_calculada =
           Q_cooling_de(estrategia, T_room, COP,
                        T_setpoint_inferior, T_setpoint_superior, Q_max_cooling)
    /\ P_electric = P_electric_de(Q_cooling_calculada, COP)
    /\ CostoTotal = CostoTotal_de(EnergiaTotal)
    /\ RestoEnReposo

\* when sample(0, 86400): both draws read pre(state1024), the state before
\* the event
Muestreo ==
    /\ time < MaxDias * periodo
    /\ time % periodo = 0
    /\ dia = time \div periodo
    /\ LET r1 == random(state1024)
           r2 == random(state1024)
       IN /\ u1' = r1.result
          /\ u2' = r2.result
          /\ state1024' = r2.stateOut
          /\ T_min_diaria' = quantile(u1', Tmin_mu, Tmin_sigma)
          /\ T_max_diaria' = T_min_diaria' + quantile(u2', DeltaT_mu, DeltaT_sigma)
    /\ dia' = dia + 1
    /\ UNCHANGED <<parametros, T_room, EnergiaTotal, time, resto>>
    /\ Algebraicas(time', T_min_diaria', T_max_diaria', T_room', EnergiaTotal')

\* the continuous equations between two events, one Euler step
Integrar ==
    /\ time < MaxDias * periodo
    /\ dia = time \div periodo + 1
    /\ time' = time + dt
    /\ T_room' = T_room_siguiente(T_room, T_ambient_instantanea, Q_cooling_calculada)
    /\ EnergiaTotal' = EnergiaSiguiente(EnergiaTotal, P_electric)
    /\ UNCHANGED <<parametros, clima, resto>>
    /\ Algebraicas(time', T_min_diaria', T_max_diaria', T_room', EnergiaTotal')

Next == Muestreo \/ Integrar

Spec == Init /\ [][Next]_vars

-----------------------------------------------------------------------------
(* The control law of SimulacionCompleta evaluated on given room and ambient *)
(* temperatures, for every configuration of the two setpoints               *)

TemperaturasAmbiente ==
    {KELVIN + 100 * c : c \in (20 - MargenAmbiente) .. (45 + MargenAmbiente)}
TemperaturasSala ==
    {KELVIN + 100 * c : c \in (22 - MargenSala) .. (26 + MargenSala)}
SetpointsInferiores == {T_setpoint_inferior_def - 100, T_setpoint_inferior_def}
SetpointsSuperiores == {T_setpoint_superior_def - 200, T_setpoint_superior_def}

\* the start values of GeneradorClima's variables, which stay untouched
ClimaEnReposo ==
    /\ localSeed = 54321
    /\ globalSeed = globalSeed_def
    /\ state1024 = 0
    /\ u1 = 0
    /\ u2 = 0
    /\ T_min_diaria = 29315
    /\ T_max_diaria = 30515
    /\ dia = 0

\* the single SimulacionCompleta at its construction values
CorridaEnReposo ==
    /\ estrategia = "LineaBase"
    /\ T_setpoint_inferior = T_setpoint_inferior_def
    /\ T_setpoint_superior = T_setpoint_superior_def
    /\ ClimaEnReposo
    /\ T_room = T_room_start
    /\ EnergiaTotal = 0
    /\ time = 0
    /\ T_ambient_instantanea = perfilTemperaturaDiaria(time, T_min_diaria, T_max_diaria)
    /\ COP = calcularCOP(T_ambient_instantanea)
    /\ Q_cooling_calculada =
           Q_cooling_de(estrategia, T_room, COP,
                        T_setpoint_inferior, T_setpoint_superior, Q_max_cooling)
    /\ P_electric = P_electric_de(Q_cooling_calculada, COP)
    /\ CostoTotal = CostoTotal_de(EnergiaTotal)

InitControl ==
    /\ estrategia \in TipoControl
    /\ T_setpoint_inferior \in SetpointsInferiores
    /\ T_setpoint_superior \in SetpointsSuperiores
    /\ ClimaEnReposo
    /\ T_room \in TemperaturasSala
    /\ T_ambient_instantanea \in TemperaturasAmbiente
    /\ EnergiaTotal = 0
    /\ time = 0
    /\ COP = calcularCOP(T_ambient_instantanea)
    /\ Q_cooling_calculada =
           Q_cooling_de(estrategia, T_room, COP,
                        T_setpoint_inferior, T_setpoint_superior, Q_max_cooling)
    /\ P_electric = P_electric_de(Q_cooling_calculada, COP)
    /\ CostoTotal = CostoTotal_de(EnergiaTotal)
    /\ RestoEnReposo

\* a decision instant: the law is evaluated on a new (T_room, T_ambient)
EvaluarControl ==
    /\ \E T_sala \in TemperaturasSala, T_amb \in TemperaturasAmbiente :
          /\ T_room' = T_sala
          /\ T_ambient_instantanea' = T_amb
    /\ UNCHANGED <<parametros, clima, EnergiaTotal, time, resto>>
    /\ Resolver(T_room', EnergiaTotal')

NextControl == EvaluarControl

SpecControl == InitControl /\ [][NextControl]_vars

-----------------------------------------------------------------------------
(* Componentes.HVAC driven by free inputs Q_cooling_demand and T_ambient *)

Demandas == {-Q_max_cooling, 0, Q_max_cooling}

InitHVAC ==
    /\ estrategia = "LineaBase"
    /\ T_setpoint_inferior = T_setpoint_inferior_def
    /\ T_setpoint_superior = T_setpoint_superior_def
    /\ ClimaEnReposo
    /\ T_room = T_room_start
    /\ T_ambient_instantanea \in TemperaturasAmbiente
    /\ Q_cooling_calculada \in Demandas
    /\ EnergiaTotal = 0
    /\ time = 0
    /\ COP = calcularCOP(T_ambient_instantanea)
    /\ P_electric = P_electric_de(Q_cooling_calculada, COP)
    /\ CostoTotal = CostoTotal_de(EnergiaTotal)
    /\ RestoEnReposo

\* the energy is integrated over one step with the inputs held, then the
\* inputs take new values
PasoHVAC ==
    /\ time < MaxPasosHVAC * dt
    /\ time' = time + dt
    /\ EnergiaTotal' = EnergiaSiguiente(EnergiaTotal, P_electric)
    /\ \E Q \in Demandas, T_amb \in TemperaturasAmbiente :
          /\ Q_cooling_calculada' = Q
          /\ T_ambient_instantanea' = T_amb
    /\ COP' = calcularCOP(T_ambient_instantanea')
    /\ P_electric' = P_electric_de(Q_cooling_calculada', COP')
    /\ CostoTotal' = CostoTotal_de(EnergiaTotal')
    /\ UNCHANGED <<parametros, clima, T_room, resto>>

NextHVAC == PasoHVAC

SpecHVAC == InitHVAC /\ [][NextHVAC]_vars

-----------------------------------------------------------------------------
(* Componentes.SalaServidores alone: the input Q_cooling held at 0 and the *)
(* input T_ambient held at a constant                                      *)

ArranquesSala == {KELVIN + 1000 * k : k \in 0 .. MaxArranque}

InitSala ==
    /\ estrategia = "LineaBase"
    /\ T_setpoint_inferior = T_setpoint_inferior_def
    /\ T_setpoint_superior = T_setpoint_superior_def
    /\ ClimaEnReposo
    /\ T_room \in ArranquesSala
    /\ T_ambient_instantanea \in TemperaturasAmbiente
    /\ Q_cooling_calculada = 0
    /\ EnergiaTotal = 0
    /\ time = 0
    /\ COP = calcularCOP(T_ambient_instantanea)
    /\ P_electric = P_electric_de(Q_cooling_calculada, COP)
    /\ CostoTotal = CostoTotal_de(EnergiaTotal)
    /\ RestoEnReposo

\* one Euler step of der(T_room) with both inputs held
PasoSala ==
    /\ time < MaxPasosSala * dt
    /\ time' = time + dt
    /\ T_room' = T_room_siguiente(T_room, T_ambient_instantanea, Q_cooling_calculada)
    /\ EnergiaTotal' = EnergiaSiguiente(EnergiaTotal, P_electric)
    /\ CostoTotal' = CostoTotal_de(EnergiaTotal')
    /\ UNCHANGED <<parametros, clima, T_ambient_instantanea,
                   Q_cooling_calculada, COP, P_electric, resto>>

NextSala == PasoSala

\* the solver integrates up to the stop time
SpecSala == InitSala /\ [][NextSala]_vars /\ WF_vars(PasoSala)

\* the steady state of the room with Q_cooling = 0, in centikelvin above
\* the ambient temperature: Q_servers + A * U * (T_ambient - T_room) = 0 at
\* T_room = T_ambient + Q_servers / (A * U)
EquilibrioSobreAmbiente == (Q_servers * 1000) \div (A * U)

\* the net heat flow, in watts, below which one Euler step changes T_room
\* by less than the centikelvin the model resolves, and the distance from
\* the steady state at which the flow is that small
Resolucion == C_th \div (100 * dt)
Tolerancia == (Resolucion * 1000) \div (A * U)

-----------------------------------------------------------------------------
(* The histogram builders of the front end.  Samples are whole numbers, the *)
(* quotient (value - min) / binWidth with binWidth = (max - min) / binCount *)
(* is taken exactly.                                                        *)

\* Math.min(...series), Math.max(...series)
Minimo(series) ==
    CHOOSE x \in {series[k] : k \in DOMAIN series} :
        \A k \in DOMAIN series : x <= series[k]
Maximo(series) ==
    CHOOSE x \in {series[k] : k \in DOMAIN series} :
        \A k \in DOMAIN series : x >= series[k]

\* the value of Math.min(Math.floor(0 / 0), binCount - 1): not a number, and
\* bins[NaN]++ changes no element of the array
NaN == -1

\* Math.min(Math.floor((value - min) / binWidth), binCount - 1)
binIndex(value, min, max, binCount) ==
    IF max = min THEN NaN
    ELSE LET i == ((value - min) * binCount) \div (max - min)
         IN IF i < binCount - 1 THEN i ELSE binCount - 1

\* Array(binCount).fill(0), then bins[binIndex]++ for each value
Contar(nombre, series, binCount) ==
    LET indices == [k \in DOMAIN series |->
                       binIndex(series[k], Minimo(series), Maximo(series), binCount)]
    IN [constructor |-> nombre,
        indices |-> indices,
        counts |-> [b \in 1 .. binCount |->
                       Cardinality({k \in DOMAIN series : indices[k] = b - 1})]]

\* renderRandomizationChart.createBins: 10 bins
createBins(series) == Contar("createBins", series, 10)

\* createHistogram: 15 bins
createHistogram(data) == Contar("createHistogram", data, 15)

\* createCostHistogram: 20 bins
createCostHistogram(costs) == Contar("createCostHistogram", costs, 20)

\* updateCostHistogram as the earlier script has it, without a branch for
\* min === max: 15 bins
updateCostHistogram_part000(costs) == Contar("updateCostHistogram_part000", costs, 15)

\* updateCostHistogram: one bar holding every sample if min === max, else
\* 15 bins
updateCostHistogram(costs) ==
    IF Minimo(costs) = Maximo(costs)
    THEN [constructor |-> "updateCostHistogram",
          indices |-> [k \in DOMAIN costs |-> 0],
          counts |-> <<Len(costs)>>]
    ELSE [Contar("updateCostHistogram", costs, 15) EXCEPT
              !.constructor = "updateCostHistogram"]

\* the non-empty sample lists the front end receives
ListasDeMuestras ==
    UNION {[1 .. n -> 0 .. MaxCosto] : n \in 1 .. MaxMuestras}

InitHistograma ==
    /\ CorridaEnReposo
    /\ corridas = <<>>
    /\ muestras \in ListasDeMuestras
    /\ histograma = SinHistograma
    /\ cost_stats = SinEstadisticas
    /\ ClienteEnReposo

\* one action for each builder drawing the samples
Dibujar_createBins ==
    /\ histograma' = createBins(muestras)
    /\ UNCHANGED <<corrida, corridas, muestras, cost_stats, cliente>>

Dibujar_createHistogram ==
    /\ histograma' = createHistogram(muestras)
    /\ UNCHANGED <<corrida, corridas, muestras, cost_stats, cliente>>

Dibujar_createCostHistogram ==
    /\ histograma' = createCostHistogram(muestras)
    /\ UNCHANGED <<corrida, corridas, muestras, cost_stats, cliente>>

Dibujar_updateCostHistogram ==
    /\ histograma' = updateCostHistogram(muestras)
    /\ UNCHANGED <<corrida, corridas, muestras, cost_stats, cliente>>

Dibujar_updateCostHistogram_part000 ==
    /\ histograma' = updateCostHistogram_part000(muestras)
    /\ UNCHANGED <<corrida, corridas, muestras, cost_stats, cliente>>

NextHistograma ==
    \/ Dibujar_createBins
    \/ Dibujar_createHistogram
    \/ Dibujar_createCostHistogram
    \/ Dibujar_updateCostHistogram
    \/ Dibujar_updateCostHistogram_part000

SpecHistograma == InitHistograma /\ [][NextHistograma]_vars

\* the sum of a list of numbers (the samples counted in the bins, the
\* costs of a batch)
RECURSIVE Suma(_)
Suma(lista) ==
    IF lista = <<>> THEN 0
    ELSE Head(lista) + Suma(Tail(lista))

-----------------------------------------------------------------------------
(* The aggregate statistics the front end shows in updateStatistics: they  *)
(* arrive computed in data.cost_stats.  summarize is their definition:     *)
(* mean, min, max and the 90th percentile by linear-interpolated rank.     *)

\* the k-th smallest of the costs, k = 1 .. Len(costs)
EstadisticoDeOrden(costs, k) ==
    CHOOSE v \in {costs[i] : i \in DOMAIN costs} :
        /\ Cardinality({i \in DOMAIN costs : costs[i] < v}) < k
        /\ Cardinality({i \in DOMAIN costs : costs[i] <= v}) >= k

\* the percentile interpolated outwards from the upper neighbour
summarize_haciaAfuera(costs) ==
    LET n == Len(costs)
        rango == 9 * (n - 1)
        inferior == EstadisticoDeOrden(costs, rango \div 10 + 1)
        superior == EstadisticoDeOrden(costs,
                        IF rango \div 10 + 2 <= n THEN rango \div 10 + 2 ELSE n)
    IN [n |-> n,
        suma |-> Suma(costs),
        min |-> Minimo(costs),
        max |-> Maximo(costs),
        costo90 |-> 10 * superior + (rango % 10) * (superior - inferior)]

\* the rank of the 90th percentile among the sorted costs is 0.9 * (n - 1),
\* counted from 0; the percentile lies between the two costs next to that
\* rank, in proportion to the fractional part of the rank
summarize(costs) ==
    LET n == Len(costs)
        rango == 9 * (n - 1)
        inferior == EstadisticoDeOrden(costs, rango \div 10 + 1)
        superior == EstadisticoDeOrden(costs,
                        IF rango \div 10 + 2 <= n THEN rango \div 10 + 2 ELSE n)
    IN [n |-> n,
        suma |-> Suma(costs),
        min |-> Minimo(costs),
        max |-> Maximo(costs),
        costo90 |-> 10 * inferior + (rango % 10) * (superior - inferior)]

\* the cost samples of a batch: each run cost nothing or MaxCosto
LotesDeCostos ==
    UNION {[1 .. n -> {0, MaxCosto}] : n \in 1 .. MaxLote}

InitResumen ==
    /\ CorridaEnReposo
    /\ corridas = <<>>
    /\ muestras \in LotesDeCostos \cup ListasDeMuestras
    /\ histograma = SinHistograma
    /\ cost_stats = SinEstadisticas
    /\ ClienteEnReposo

\* the statistics of the batch are computed and shown
Resumir ==
    /\ cost_stats' = summarize(muestras)
    /\ UNCHANGED <<corrida, corridas, muestras, histograma, cliente>>

NextResumen == Resumir

SpecResumen == InitResumen /\ [][NextResumen]_vars

-----------------------------------------------------------------------------
(* A batch of runs: every run is a SimulacionCompleta of its own, with its *)
(* own GeneradorClima, SalaServidores and HVAC.  A run advances from one   *)
(* daily event to the next; runs advance in any order.  Run 1 is the       *)
(* baseline strategy at the capacity of ParametrosFisicos, the other run   *)
(* has any strategy and capacity.                                          *)

Corridas == {1, 2}

\* the cooling capacities the runs of a batch are configured with
Capacidades == {Q_max_cooling, Q_max_cooling + Q_max_cooling \div 3}

\* the seeds of run i: SimulacionCompleta declares
\* generadorClima(params_clima=params_clima) and forwards neither seed, so
\* every run has the seeds the GeneradorClima parameters are set to
SemillasDeCorrida(i, lSeed, gSeed) == [localSeed |-> lSeed, globalSeed |-> gSeed]

\* the state of a run after the initial algorithm and the start values
CorridaInicial(estr, Q_max, semillas) ==
    LET s0 == initialState(semillas.localSeed, semillas.globalSeed)
        r1 == random(s0)
        r2 == random(r1.stateOut)
        Tmin == quantile(r1.result, Tmin_mu, Tmin_sigma)
        Tmax == Tmin + quantile(r2.result, DeltaT_mu, DeltaT_sigma)
    IN [estrategia |-> estr,
        Q_max_cooling |-> Q_max,
        localSeed |-> semillas.localSeed,
        globalSeed |-> semillas.globalSeed,
        estadoInicial |-> s0,
        state1024 |-> r2.stateOut,
        T_min_diaria |-> Tmin,
        T_max_diaria |-> Tmax,
        pares |-> << <<Tmin, Tmax>> >>,
        T_room |-> T_room_start,
        EnergiaTotal |-> 0,
        time |-> 0,
        dia |-> 0]

\* the generator state the sample event of run i reads: pre(state1024) of
\* the run's own GeneradorClima
EstadoPrevio_compartido(cs, i) == cs[CHOOSE k \in DOMAIN cs : TRUE].state1024

EstadoPrevio(cs, i) == cs[i].state1024

\* when sample(0, 86400) of a run, reading the generator state previo
MuestreoCorrida(r, previo) ==
    LET r1 == random(previo)
        r2 == random(previo)
        Tmin == quantile(r1.result, Tmin_mu, Tmin_sigma)
        Tmax == Tmin + quantile(r2.result, DeltaT_mu, DeltaT_sigma)
    IN [r EXCEPT !.state1024 = r2.stateOut,
                 !.T_min_diaria = Tmin,
                 !.T_max_diaria = Tmax,
                 !.pares = Append(@, <<Tmin, Tmax>>),
                 !.dia = @ + 1]

\* the algebraic equations of a run
T_ambient_de(r) == perfilTemperaturaDiaria(r.time, r.T_min_diaria, r.T_max_diaria)

Q_cooling_corrida(r) ==
    Q_cooling_de(r.estrategia, r.T_room, calcularCOP(T_ambient_de(r)),
                 T_setpoint_inferior_def, T_setpoint_superior_def,
                 r.Q_max_cooling)

P_electric_corrida(r) ==
    P_electric_de(Q_cooling_corrida(r), calcularCOP(T_ambient_de(r)))

\* one Euler step of the continuous equations of a run
IntegrarCorrida(r) ==
    [r EXCEPT !.time = @ + dt,
              !.T_room = T_room_siguiente(r.T_room, T_ambient_de(r),
                                          Q_cooling_corrida(r)),
              !.EnergiaTotal = EnergiaSiguiente(@, P_electric_corrida(r))]

\* n Euler steps: the first half of them, then the rest from the state
\* they reach
RECURSIVE IntegrarPasos(_, _)
IntegrarPasos(r, n) ==
    IF n = 0 THEN r
    ELSE IF n = 1 THEN IntegrarCorrida(r)
    ELSE LET medio == IntegrarPasos(r, n \div 2)
         IN IF medio.time = r.time + dt * (n \div 2)
            THEN IntegrarPasos(medio, n - n \div 2)
            ELSE r

InitLote ==
    /\ CorridaEnReposo
    /\ PanelEnReposo
    /\ ClienteEnReposo
    /\ \E lSeed \in Semillas :
       \E estr \in TipoControl :
       \E cap \in Capacidades :
          corridas = [i \in Corridas |->
                         CorridaInicial(IF i = 1 THEN "LineaBase" ELSE estr,
                                        IF i = 1 THEN Q_max_cooling ELSE cap,
                                        SemillasDeCorrida(i, lSeed, globalSeed_def))]

\* the daily sample event of run i
MuestreoLote(i) ==
    /\ corridas[i].time < MaxDias * periodo
    /\ corridas[i].dia = corridas[i].time \div periodo
    /\ corridas' = [corridas EXCEPT
                       ![i] = MuestreoCorrida(@, EstadoPrevio(corridas, i))]
    /\ UNCHANGED <<corrida, panel, cliente>>

\* run i integrates from its last event to the next one
IntegrarLote(i) ==
    /\ corridas[i].time < MaxDias * periodo
    /\ corridas[i].dia = corridas[i].time \div periodo + 1
    /\ corridas' = [corridas EXCEPT ![i] = IntegrarPasos(@, periodo \div dt)]
    /\ UNCHANGED <<corrida, panel, cliente>>

NextLote == \E i \in Corridas : MuestreoLote(i) \/ IntegrarLote(i)

SpecLote == InitLote /\ [][NextLote]_vars

\* a run that has reached the end of the simulated period
Terminada(r) == r.time = MaxDias * periodo

\* HVAC.CostoTotal of a run
CostoTotal_corrida(r) == CostoTotal_de(r.EnergiaTotal)

-----------------------------------------------------------------------------
(* The polling front end (part_003).  startSimulation posts /api/simulate;  *)
(* the answer 'started' arms setInterval(checkSimulationStatus, 1000), and  *)
(* every tick of a timer fetches /api/simulation_status.  The server and    *)
(* the network are the environment: every answer is an input and answers    *)
(* arrive in any order.  Simulations are numbered by their POST; a timer    *)
(* carries the number of the simulation whose start armed it, a poll the    *)
(* number of the timer that sent it.  red holds the requests in flight      *)
(* (red.final: the server has come to answer every poll with 'complete' or  *)
(* 'error'), registro what has happened so far: the simulations posted,     *)
(* those whose terminal outcome has not been processed, the calls of        *)
(* displayResults per simulation, whether results of an earlier simulation  *)
(* were displayed after a later one was posted (ajeno), whether the poll of *)
(* an earlier simulation cleared the timer of a later one (cortado), and    *)
(* whether a failure was processed since the last POST (fallo).             *)

MaxSimulaciones == 3
MaxSondeos == 2
MaxMostrados == 2

\* the five div.progress-step written by updateUIForSimulationStart
progressSteps == 5

\* data.status of an answer to /api/simulate ("reject": the promise rejects)
RespuestasDeInicio == {"started", "error", "reject"}

\* data.status of an answer to /api/simulation_status
RespuestasDeEstado == {"complete", "running", "error", "otro", "reject"}

\* data.message of an answer with status 'error' ("" when it has none)
Mensajes == {"", "fallo del servidor"}

MensajesDeError ==
    {"Error al iniciar la simulacion", "Error de conexion",
     "Error durante la simulacion", "fallo del servidor"}

updateUIForSimulationStart(d) ==
    [d EXCEPT !.disabled = TRUE,
              !.textContent = "Simulando...",
              !.className = "status-message status-running"]

updateUIForSimulationEnd(d) ==
    [d EXCEPT !.disabled = FALSE,
              !.textContent = "Simulacion completada",
              !.className = "status-message status-complete"]

showError(d, message) ==
    [d EXCEPT !.textContent = message,
              !.className = "status-message status-error"]

\* window.clearInterval: no effect on null or on a timer already cleared
clearInterval(timers, id) == timers \ {id}

updateSimulationProgress(step) == (step + 1) % (progressSteps * 2)

\* the start failed: what the else branch and the catch of startSimulation do
FalloDeInicio(d, message) == updateUIForSimulationEnd(showError(d, message))

\* the poll failed: what the 'error' branch of checkSimulationStatus does
FalloDeSondeo(d, message) ==
    showError(updateUIForSimulationEnd(d),
              IF message = "" THEN "Error durante la simulacion" ELSE message)

InitCliente ==
    /\ CorridaEnReposo
    /\ corridas = <<>>
    /\ PanelEnReposo
    /\ ClienteEnReposo

\* a click on simulate-button: the listener runs startSimulation
startSimulation ==
    /\ ~dom.disabled
    /\ registro.simulaciones < MaxSimulaciones
    /\ IF simulationRunning
       THEN UNCHANGED cliente
       ELSE LET s == registro.simulaciones + 1 IN
            /\ simulationRunning' = TRUE
            /\ dom' = updateUIForSimulationStart(dom)
            /\ red' = [red EXCEPT !.inicios = @ \cup {s},
                                  !.sondeos = Append(@, 0)]
            /\ registro' = [registro EXCEPT !.simulaciones = s,
                                            !.pendientes = @ \cup {s},
                                            !.mostrados = Append(@, 0),
                                            !.fallo = FALSE]
            /\ UNCHANGED <<statusCheckInterval, currentProgressStep,
                           temporizadores>>
    /\ UNCHANGED <<corrida, corridas, panel, progress>>

\* the answer to the POST of simulation s arrives
startSimulation_then(s) ==
    /\ s \in red.inicios
    /\ \E status \in RespuestasDeInicio :
          IF status = "started"
          THEN /\ statusCheckInterval' = s
               /\ temporizadores' = temporizadores \cup {s}
               /\ UNCHANGED <<simulationRunning, dom, registro>>
          ELSE /\ dom' = FalloDeInicio(dom,
                            IF status = "reject" THEN "Error de conexion"
                            ELSE "Error al iniciar la simulacion")
               /\ simulationRunning' = FALSE
               /\ registro' = [registro EXCEPT !.pendientes = @ \ {s},
                                               !.fallo = TRUE]
               /\ UNCHANGED <<statusCheckInterval, temporizadores>>
    /\ red' = [red EXCEPT !.inicios = @ \ {s}]
    /\ UNCHANGED <<currentProgressStep, corrida, corridas, panel, progress>>

\* timer t fires: checkSimulationStatus sends its fetch
checkSimulationStatus(t) ==
    /\ t \in temporizadores
    /\ red.sondeos[t] < MaxSondeos
    /\ red' = [red EXCEPT !.sondeos[t] = @ + 1]
    /\ UNCHANGED <<simulationRunning, statusCheckInterval, currentProgressStep,
                   temporizadores, dom, registro, corrida, corridas, panel,
                   progress>>

\* the answer to a poll sent by timer t arrives
checkSimulationStatus_then(t) ==
    /\ t \in DOMAIN red.sondeos
    /\ red.sondeos[t] > 0
    /\ red' = [red EXCEPT !.sondeos[t] = @ - 1]
    /\ \E status \in RespuestasDeEstado, message \in Mensajes :
          /\ red.final => status \in {"complete", "error"}
          /\ status # "error" => message = ""
          /\ LET ajena == /\ statusCheckInterval # t
                          /\ statusCheckInterval \in temporizadores IN
             CASE status = "complete" ->
                    /\ temporizadores' =
                           clearInterval(temporizadores, statusCheckInterval)
                    /\ simulationRunning' = FALSE
                    /\ dom' = updateUIForSimulationEnd(dom)
                    /\ registro' =
                         [registro EXCEPT
                            !.pendientes = @ \ {t},
                            !.mostrados[t] =
                                IF @ < MaxMostrados THEN @ + 1 ELSE @,
                            !.ajeno = @ \/ t # registro.simulaciones,
                            !.cortado = @ \/ ajena]
                    /\ UNCHANGED <<statusCheckInterval, currentProgressStep>>
               [] status = "running" ->
                    /\ currentProgressStep' =
                           updateSimulationProgress(currentProgressStep)
                    /\ UNCHANGED <<simulationRunning, statusCheckInterval,
                                   temporizadores, dom, registro>>
               [] status = "error" ->
                    /\ temporizadores' =
                           clearInterval(temporizadores, statusCheckInterval)
                    /\ simulationRunning' = FALSE
                    /\ dom' = FalloDeSondeo(dom, message)
                    /\ registro' = [registro EXCEPT !.pendientes = @ \ {t},
                                                    !.cortado = @ \/ ajena,
                                                    !.fallo = TRUE]
                    /\ UNCHANGED <<statusCheckInterval, currentProgressStep>>
               [] OTHER ->
                    UNCHANGED <<simulationRunning, statusCheckInterval,
                                currentProgressStep, temporizadores, dom,
                                registro>>
    /\ UNCHANGED <<corrida, corridas, panel, progress>>

\* the batch on the server ends: from now on no poll is answered 'running'
TerminaElLote ==
    /\ ~red.final
    /\ red' = [red EXCEPT !.final = TRUE]
    /\ UNCHANGED <<simulationRunning, statusCheckInterval, currentProgressStep,
                   temporizadores, dom, registro, corrida, corridas, panel,
                   progress>>

Simulaciones == 1..MaxSimulaciones

NextCliente ==
    \/ startSimulation
    \/ \E s \in Simulaciones : startSimulation_then(s)
    \/ \E t \in Simulaciones : checkSimulationStatus(t)
    \/ \E t \in Simulaciones : checkSimulationStatus_then(t)
    \/ TerminaElLote

SpecCliente == InitCliente /\ [][NextCliente]_vars

\* setInterval keeps firing an armed timer, and every fetch is settled
SpecSondeo ==
    /\ InitCliente
    /\ [][NextCliente]_vars
    /\ \A t \in Simulaciones :
          /\ WF_vars(checkSimulationStatus(t))
          /\ WF_vars(checkSimulationStatus_then(t))
          /\ WF_vars(startSimulation_then(t))

-----------------------------------------------------------------------------
(* The single-request front end (static/js/scripts.js).  A click on         *)
(* simulate-btn disables the button, arms a 50 ms timer that animates the   *)
(* progress bar, and posts /api/simulate; the answer carries the results.   *)
(* Every click has its own progress and its own progressInterval: clicks    *)
(* are numbered, and temporizadores holds the clicks whose timer is armed.  *)
(* dom is simulateBtn.disabled, statusMessage.textContent and the width of  *)
(* progressBar in percent.                                                  *)

MaxClics == 2

Clics == 1..MaxClics

\* statusMessage.textContent after the tick that brings progress to p
MensajeDeProgreso(p, textContent) ==
    IF p = 20 THEN "Generando perfiles climaticos..."
    ELSE IF p = 40 THEN "Simulando estrategia de linea base..."
    ELSE IF p = 60 THEN "Simulando estrategia optimizada..."
    ELSE IF p = 80 THEN "Analizando resultados..."
    ELSE IF p >= 100 THEN "Procesando graficos..."
    ELSE textContent

InitScripts ==
    /\ CorridaEnReposo
    /\ corridas = <<>>
    /\ PanelEnReposo
    /\ simulationRunning = FALSE
    /\ statusCheckInterval = 0
    /\ currentProgressStep = 0
    /\ temporizadores = {}
    /\ dom = [disabled |-> FALSE, textContent |-> "", width |-> 0]
    /\ red = [inicios |-> {}]
    /\ registro = [simulaciones |-> 0, fallo |-> FALSE]
    /\ progress = <<>>

\* the click handler of simulateBtn, up to the fetch
simulateBtn_click ==
    /\ ~dom.disabled
    /\ registro.simulaciones < MaxClics
    /\ LET c == registro.simulaciones + 1 IN
       /\ dom' = [dom EXCEPT !.disabled = TRUE,
                             !.textContent = "Iniciando simulacion..."]
       /\ progress' = Append(progress, 0)
       /\ temporizadores' = temporizadores \cup {c}
       /\ red' = [red EXCEPT !.inicios = @ \cup {c}]
       /\ registro' = [simulaciones |-> c, fallo |-> FALSE]
    /\ UNCHANGED <<simulationRunning, statusCheckInterval, currentProgressStep,
                   corrida, corridas, panel>>

\* the timer of click c fires
progressInterval(c) ==
    /\ c \in temporizadores
    /\ LET p == progress[c] + 1 IN
       /\ progress' = [progress EXCEPT ![c] = p]
       /\ dom' = [dom EXCEPT !.width = p,
                             !.textContent = MensajeDeProgreso(p, @)]
       /\ temporizadores' = IF p >= 100
                            THEN clearInterval(temporizadores, c)
                            ELSE temporizadores
    /\ UNCHANGED <<simulationRunning, statusCheckInterval, currentProgressStep,
                   red, registro, corrida, corridas, panel>>

\* the request of click c is answered and the charts are drawn
simulate_then(c) ==
    /\ c \in red.inicios
    /\ red' = [red EXCEPT !.inicios = @ \ {c}]
    /\ temporizadores' = clearInterval(temporizadores, c)
    /\ dom' = [disabled |-> FALSE,
               textContent |-> "Simulacion completada",
               width |-> 100]
    /\ UNCHANGED <<simulationRunning, statusCheckInterval, currentProgressStep,
                   registro, progress, corrida, corridas, panel>>

\* the request of click c fails (or drawing its answer throws)
simulate_catch(c) ==
    /\ c \in red.inicios
    /\ red' = [red EXCEPT !.inicios = @ \ {c}]
    /\ dom' = [dom EXCEPT !.disabled = FALSE,
                          !.textContent = "Error en la simulacion"]
    /\ registro' = [registro EXCEPT !.fallo = TRUE]
    /\ UNCHANGED <<simulationRunning, statusCheckInterval, currentProgressStep,
                   temporizadores, progress, corrida, corridas, panel>>

NextScripts ==
    \/ simulateBtn_click
    \/ \E c \in Clics : progressInterval(c)
    \/ \E c \in Clics : simulate_then(c)
    \/ \E c \in Clics : simulate_catch(c)

SpecScripts == InitScripts /\ [][NextScripts]_vars

-----------------------------------------------------------------------------
(* Claims *)

\* C1: under the baseline policy the demand is Q_max_cooling when T_room is
\* strictly above the 24 C threshold and 0 otherwise (0 at the threshold
\* itself), for every room temperature and whatever the COP.
C1_LineaBase ==
    estrategia = "LineaBase" =>
        /\ T_room > T_LineaBase => Q_cooling_calculada = Q_max_cooling
        /\ T_room <= T_LineaBase => Q_cooling_calculada = 0

\* C1 witness: the law decided at exactly the threshold, with an efficient COP
C1_Witness ==
    /\ estrategia = "LineaBase"
    /\ T_room = T_LineaBase
    /\ COP > COP_eficiente
    /\ Q_cooling_calculada = 0

\* C2 as stated: under the optimized policy, for T_low <= T_room < T_hot
\* (T_low included) the demand is Q_max_cooling exactly when the COP exceeds
\* the efficiency threshold, and 0 when it does not.
C2_BandaCerrada ==
    (/\ estrategia = "Optimizado"
     /\ T_setpoint_inferior <= T_room
     /\ T_room < T_setpoint_superior) =>
        Q_cooling_calculada = IF COP > COP_eficiente THEN Q_max_cooling ELSE 0

\* C2 amended: under the optimized policy, for T_low < T_room < T_hot (T_low
\* excluded) the demand is Q_max_cooling exactly when the COP exceeds the
\* efficiency threshold and 0 when it does not; at T_room = T_low the demand
\* is 0 whatever the COP.
C2_BandaAbierta ==
    estrategia = "Optimizado" =>
        /\ (T_setpoint_inferior < T_room /\ T_room < T_setpoint_superior) =>
              Q_cooling_calculada =
                  IF COP > COP_eficiente THEN Q_max_cooling ELSE 0
        /\ T_room = T_setpoint_inferior => Q_cooling_calculada = 0

\* C2 witness: pre-cooling inside the band at an efficient COP
C2_Witness ==
    /\ estrategia = "Optimizado"
    /\ T_setpoint_inferior < T_room
    /\ T_room < T_setpoint_superior
    /\ COP > COP_eficiente
    /\ Q_cooling_calculada = Q_max_cooling

\* C3: under the optimized policy the demand is Q_max_cooling whenever T_room
\* is above T_hot and 0 whenever T_room is below T_low, whatever the COP.
C3_NivelesExternos ==
    estrategia = "Optimizado" =>
        /\ T_room > T_setpoint_superior => Q_cooling_calculada = Q_max_cooling
        /\ T_room < T_setpoint_inferior => Q_cooling_calculada = 0

\* C3 witness: the emergency ceiling forces cooling at an inefficient COP
C3_Witness ==
    /\ estrategia = "Optimizado"
    /\ T_room > T_setpoint_superior
    /\ COP <= COP_eficiente
    /\ Q_cooling_calculada = Q_max_cooling

\* C4: in every state of a run, under either policy, Q_cooling_calculada is
\* exactly 0 or exactly Q_max_cooling.
C4_TodoONada == Q_cooling_calculada \in {0, Q_max_cooling}

\* C4 witness: a run under the optimized policy pre-cooling inside the band
C4_Witness ==
    /\ time > 0
    /\ estrategia = "Optimizado"
    /\ T_room <= T_setpoint_superior
    /\ Q_cooling_calculada = Q_max_cooling

\* C5: the COP never rises when the ambient temperature rises or stays:
\* T1 <= T2 implies calcularCOP(T1) >= calcularCOP(T2).
C5_COPNoCreciente ==
    [][T_ambient_instantanea' >= T_ambient_instantanea => COP' <= COP]_vars

\* C6: the COP is at least 1.0 at every ambient temperature.
C6_COPMinimo == COP >= 10000

\* C7: the electric power is the demand divided by max(COP, 1e-6) when the
\* demand exceeds the threshold (the quotient, rounded down to a watt), and
\* exactly 0 when it does not; it is never negative.
C7_PotenciaElectrica ==
    /\ P_electric >= 0
    /\ Q_cooling_calculada <= 0 => P_electric = 0
    /\ Q_cooling_calculada > 0 =>
          IF COP * 100 > 1
          THEN /\ P_electric * COP <= Q_cooling_calculada * 10000
               /\ Q_cooling_calculada * 10000 < (P_electric + 1) * COP
          ELSE P_electric = Q_cooling_calculada * 1000000

\* C7 witness: the HVAC has run a step and draws power for a positive demand
C7_Witness ==
    /\ time > 0
    /\ Q_cooling_calculada = Q_max_cooling
    /\ P_electric > 0

\* C8: from one instant to the next neither EnergiaTotal nor CostoTotal
\* decreases, for every sequence of demands and ambient temperatures.
C8_AcumuladosNoDecrecen ==
    [][EnergiaTotal' >= EnergiaTotal /\ CostoTotal' >= CostoTotal]_vars

\* C8 witness: energy has been consumed and the power has dropped to zero
\* under a negative demand
C8_Witness ==
    /\ EnergiaTotal > 0
    /\ CostoTotal > 0
    /\ Q_cooling_calculada < 0
    /\ P_electric = 0

\* C9: for the initial day and every daily re-draw, T_max_diaria is at least
\* T_min_diaria.
C9_RangoNoNegativo == T_max_diaria >= T_min_diaria

\* C10: on every daily sample event u1 is drawn from the state before the
\* event, u2 from the state that drawing u1 leaves, and state1024 ends two
\* draws ahead.
C10_DosExtracciones ==
    [][dia' = dia + 1 =>
          LET r1 == random(state1024)
              r2 == random(r1.stateOut)
          IN /\ u1' = r1.result
             /\ u2' = r2.result
             /\ state1024' = r2.stateOut]_vars


\* two runs were given the same seeds
MismasSemillas(r, q) ==
    r.localSeed = q.localSeed /\ r.globalSeed = q.globalSeed

\* two runs were given the same parameters
MismosParametros(r, q) ==
    r.estrategia = q.estrategia /\ r.Q_max_cooling = q.Q_max_cooling

\* the daily pairs both runs have drawn so far are the same
MismosPares(r, q) ==
    \A k \in 1 .. Len(r.pares) :
        k <= Len(q.pares) => r.pares[k] = q.pares[k]

C12_FlujosPropios ==
    \A i \in DOMAIN corridas : \A j \in DOMAIN corridas :
        i # j => corridas[i].estadoInicial # corridas[j].estadoInicial

\* C13: with the same seeds and parameters, the total cost of a finished run
\* under the optimized policy is not above that of the baseline run (the
\* batch mean is taken over runs of identical seeds)
C13_OptimizadoNoMasCaro ==
    \A i \in DOMAIN corridas : \A j \in DOMAIN corridas :
        (/\ MismasSemillas(corridas[i], corridas[j])
         /\ corridas[i].Q_max_cooling = corridas[j].Q_max_cooling
         /\ corridas[i].estrategia = "LineaBase"
         /\ corridas[j].estrategia = "Optimizado"
         /\ Terminada(corridas[i])
         /\ Terminada(corridas[j]))
        => CostoTotal_corrida(corridas[j]) <= CostoTotal_corrida(corridas[i])

\* C14: with the same seeds and policy, the total cost of a finished run
\* with the larger Q_max_cooling is not above that of the run with the
\* smaller one
C14_CapacidadNoEncarece ==
    \A i \in DOMAIN corridas : \A j \in DOMAIN corridas :
        (/\ MismasSemillas(corridas[i], corridas[j])
         /\ corridas[i].estrategia = corridas[j].estrategia
         /\ corridas[i].Q_max_cooling < corridas[j].Q_max_cooling
         /\ Terminada(corridas[i])
         /\ Terminada(corridas[j]))
        => CostoTotal_corrida(corridas[j]) <= CostoTotal_corrida(corridas[i])


\* T_room is at T_ambient + Q_servers / (A * U), up to the resolution of the
\* model
C15_EnEquilibrio ==
    /\ T_room - T_ambient_instantanea >= EquilibrioSobreAmbiente - Tolerancia
    /\ T_room - T_ambient_instantanea <= EquilibrioSobreAmbiente

\* away from that temperature one step moves T_room towards it and not
\* beyond it
C15_HaciaElEquilibrio ==
    /\ T_room - T_ambient_instantanea < EquilibrioSobreAmbiente - Tolerancia
       => /\ T_room' > T_room
          /\ T_room' - T_ambient_instantanea' <= EquilibrioSobreAmbiente
    /\ T_room - T_ambient_instantanea > EquilibrioSobreAmbiente
       => /\ T_room' < T_room
          /\ T_room' - T_ambient_instantanea' >= EquilibrioSobreAmbiente - Tolerancia

\* C15: with Q_cooling held at 0 and a constant ambient temperature, T_room
\* reaches T_ambient + Q_servers / (A * U) from every start value and stays
\* there, and at every other temperature a step moves T_room towards it, so
\* that no other temperature has der(T_room) = 0
C15_Convergencia ==
    /\ <>[]C15_EnEquilibrio
    /\ [][C15_HaciaElEquilibrio]_vars

\* the room has settled at the steady state after starting well below it
\* with no cooling
C15_Witness ==
    /\ Q_cooling_calculada = 0
    /\ corridas = <<>>
    /\ time = MaxPasosSala * dt
    /\ T_room > T_room_start + 2000
    /\ C15_EnEquilibrio


\* C16: for T_max >= T_min the ambient profile is T_max at 15:00
\* (t = 54000 s into the day), T_min at 05:00 (t = 18000 s into the day) and
\* within [T_min, T_max] at every time
C16_PerfilDiario ==
    T_max_diaria >= T_min_diaria =>
        /\ time % periodo = t_offset => T_ambient_instantanea = T_max_diaria
        /\ time % periodo = t_minima => T_ambient_instantanea = T_min_diaria
        /\ T_ambient_instantanea >= T_min_diaria
        /\ T_ambient_instantanea <= T_max_diaria


\* C20: whenever the demand is above the threshold, the electric power is at
\* least the demand divided by the maximum COP 4.5, at every ambient
\* temperature
C20_PotenciaMinima ==
    SuperaUmbral(Q_cooling_calculada) =>
        P_electric >= (Q_cooling_calculada * 10000) \div COP_max

\* the HVAC has run a step at full demand with the COP at its maximum, where
\* the power equals the bound
C20_Witness ==
    /\ corridas = <<>>
    /\ time > 0
    /\ EnergiaTotal > 0
    /\ Q_cooling_calculada = Q_max_cooling
    /\ COP = COP_max
    /\ P_electric = (Q_max_cooling * 10000) \div COP_max


\* the samples are all equal
TodasIguales(series) == Minimo(series) = Maximo(series)

\* C17: if all cost samples are identical, the cost histogram drawn by
\* updateCostHistogram is exactly one bin whose count is the number of samples
C17_HistogramaDegenerado ==
    (/\ histograma.constructor \in
            {"updateCostHistogram", "updateCostHistogram_part000"}
     /\ TodasIguales(muestras))
    => histograma.counts = <<Len(muestras)>>

\* C18: createBins, createHistogram and createCostHistogram give every sample
\* of a non-empty list, all-equal lists included, a bin index in
\* [0, binCount - 1], the maximum sample the last bin, and bin counts that
\* sum to the number of samples
C18_UnBinPorMuestra ==
    histograma.constructor \in
        {"createBins", "createHistogram", "createCostHistogram"}
    => /\ \A k \in DOMAIN muestras :
             /\ histograma.indices[k] >= 0
             /\ histograma.indices[k] <= Len(histograma.counts) - 1
             /\ muestras[k] = Maximo(muestras)
                => histograma.indices[k] = Len(histograma.counts) - 1
       /\ Suma(histograma.counts) = Len(muestras)


\* C19 as stated: for every non-empty batch of cost samples,
\* min <= mean <= 90th percentile <= max
C19_PercentilSobreMedia ==
    cost_stats.n > 0 =>
        /\ cost_stats.min * cost_stats.n <= cost_stats.suma
        /\ cost_stats.suma * 10 <= cost_stats.costo90 * cost_stats.n
        /\ cost_stats.costo90 <= 10 * cost_stats.max

\* C19: for every non-empty batch of cost samples, the mean and the 90th
\* percentile both lie between the minimum and the maximum
C19_EstadisticasAcotadas ==
    cost_stats.n > 0 =>
        /\ cost_stats.min * cost_stats.n <= cost_stats.suma
        /\ cost_stats.suma <= cost_stats.max * cost_stats.n
        /\ 10 * cost_stats.min <= cost_stats.costo90
        /\ cost_stats.costo90 <= 10 * cost_stats.max

\* the statistics of a full batch with unequal costs whose mean is above its
\* 90th percentile
C19_Witness ==
    /\ cost_stats.n = MaxLote
    /\ cost_stats.min < cost_stats.max
    /\ cost_stats.suma * 10 > cost_stats.costo90 * cost_stats.n


\* C21: at every decision instant the demand is the value the control law
\* gives for the current strategy, setpoints, T_room and COP, whatever the
\* demand was before
C21_SinMemoria ==
    [][Q_cooling_calculada' =
           Q_cooling_de(estrategia', T_room', COP',
                        T_setpoint_inferior', T_setpoint_superior',
                        Q_max_cooling)]_vars

\* a run under the optimized law that has cooled before stands inside the
\* band at a COP that is not efficient, and the demand is 0
C21_Witness ==
    /\ corridas = <<>>
    /\ time > 0
    /\ EnergiaTotal > 0
    /\ estrategia = "Optimizado"
    /\ T_room > T_setpoint_inferior
    /\ T_room < T_setpoint_superior
    /\ COP < COP_eficiente
    /\ Q_cooling_calculada = 0

\* C22: the baseline policy switches at the configured T_hot
\* (T_setpoint_superior) and the optimized policy at the configured T_low
\* and T_hot
C22_UmbralesConfigurados ==
    /\ estrategia = "LineaBase" =>
          Q_cooling_calculada =
              (IF T_room > T_setpoint_superior THEN Q_max_cooling ELSE 0)
    /\ estrategia = "Optimizado" =>
          Q_cooling_calculada =
              (IF T_room > T_setpoint_superior THEN Q_max_cooling
               ELSE IF T_room > T_setpoint_inferior /\ COP > COP_eficiente
                    THEN Q_max_cooling
                    ELSE 0)

\* C23: at every instant the cost is the energy in kWh times the tariff,
\* rounded down to a cent, and as long as no cooling has been demanded the
\* energy and the cost stay 0
C23_CostoDeLaEnergia ==
    /\ [](/\ CostoTotal * (JoulesPorKWh \div dt) <= EnergiaTotal * costo_kWh
          /\ EnergiaTotal * costo_kWh < (CostoTotal + 1) * (JoulesPorKWh \div dt))
    /\ [][(EnergiaTotal = 0 /\ ~SuperaUmbral(Q_cooling_calculada))
          => (EnergiaTotal' = 0 /\ CostoTotal' = 0)]_vars

\* cooling has run and cost at least a dollar
C23_Witness ==
    /\ corridas = <<>>
    /\ time > 0
    /\ EnergiaTotal > 0
    /\ CostoTotal >= 100

\* C24: the total cost of a run is the cost of the cooling energy plus the
\* cost of the energy of the fixed IT load Q_servers
C24_CostoConServidores ==
    CostoTotal = CostoTotal_de(EnergiaTotal + Q_servers * (time \div dt))


\* the page is idle: no simulation running, the button enabled, no timer
ClienteOcioso ==
    /\ ~simulationRunning
    /\ ~dom.disabled
    /\ temporizadores = {}

\* C25: status polling terminates.  Once a start has been acknowledged (a
\* polling timer is armed) and the server has come to answer every poll with
\* 'complete' or 'error', the client eventually reaches a state with
\* simulationRunning false, the button enabled and no polling timer active,
\* whatever the interleaving; and a poll answered 'running' (the only step
\* that advances currentProgressStep) leaves the timers armed and the
\* simulation running.
C25_SondeoTermina ==
    /\ (red.final /\ temporizadores # {}) ~> ClienteOcioso
    /\ [][currentProgressStep' # currentProgressStep =>
             UNCHANGED <<temporizadores, simulationRunning>>]_vars

\* C26: no POST /api/simulate is sent while an earlier simulation still waits
\* for its terminal outcome (start rejected, start request failed, or one of
\* its own polls answered 'complete' or 'error').
C26_UnaSimulacion ==
    [][registro.simulaciones' # registro.simulaciones =>
          registro.pendientes = {}]_vars

\* C27: at most one polling timer is armed at any time, and a timer is armed
\* only while simulationRunning is true.
C27_UnTemporizador ==
    /\ Cardinality(temporizadores) <= 1
    /\ temporizadores # {} => simulationRunning

\* C28: displayResults is called at most once per simulation and only for
\* the simulation most recently started, and the answer to a poll of an
\* earlier simulation never clears the timer of a later one.
C28_ResultadosUnaVez ==
    /\ \A s \in DOMAIN registro.mostrados : registro.mostrados[s] <= 1
    /\ ~registro.ajeno
    /\ ~registro.cortado

\* C29: from a failure (start answered other than 'started', start request
\* rejected, poll answered 'error') until the next simulation is started the
\* status element shows an error message with the error style.
C29_ErrorVisible ==
    registro.fallo =>
        /\ dom.textContent \in MensajesDeError
        /\ dom.className = "status-message status-error"


\* C30: in scripts.js, from the failure of the simulate request until the
\* next click the status message is 'Error en la simulacion' and neither it
\* nor the progress bar changes; and always the progress of every click is
\* at most 100 and its timer is stopped once it has reached 100.
C30_ErrorPersistente ==
    /\ [](registro.fallo => dom.textContent = "Error en la simulacion")
    /\ [][(registro.fallo /\ registro.fallo') => dom' = dom]_vars
    /\ [](\A c \in DOMAIN progress :
             /\ progress[c] <= 100
             /\ progress[c] >= 100 => c \notin temporizadores)

=============================================================================
